---------------------------- MODULE Spec2Model ----------------------------
(***************************************************************************)
(* A model of the blessing-slip service: the weighted hierarchical draw    *)
(* and the layered rendering of src/src/render.py, and the two HTTP        *)
(* handlers of src/src/main.py that call it.                               *)
(*                                                                         *)
(* Strings of the program are TLA+ strings, "" being the empty string.     *)
(* The one string the program slices, color_hex, is a sequence of          *)
(* one-character strings, << >> being the empty string.                    *)
(***************************************************************************)
EXTENDS Integers, Sequences, FiniteSets, TLC

VARIABLES
    draw_items,     \* DRAW_ITEMS, the catalog, fixed after start-up
    debug_mode,     \* main.py: debug_mode, fixed after start-up
    pc,             \* position of the one running call
    caller,         \* "direct", "json" or "blessing": who made the call
    debug,          \* generate_blessing_image's argument
    add_text_stroke,\* generate_blessing_image's argument
    result,         \* the BlessingResult of the running call, or NoValue
    parent_id,      \* _draw_sub_items' argument at its next level
    path,           \* the items selected so far by perform_draw's descent
    bg_item,        \* perform_draw's bg_item, or NoValue
    text_item,      \* perform_draw's text_item, or NoValue
    start_root,     \* the root whose children made the text-image start set
    layers,         \* the layers attempted so far: [layer, drawn]
    drawn_texts,    \* the draw.text calls of the white glyph runs: [i, y, size, strokes]
    font_cache,     \* self.font_cache
    png,            \* whether canvas.save produced the PNG bytes
    raised,         \* the exception that ended the call, or "none"
    response,       \* the HTTP response of the last request, or NoValue
    sel_items,      \* the list last handed to _draw_random_item
    sel_rand,       \* its rand_num
    sel_out,        \* its outcome
    th_pc,          \* per thread: position in _load_font
    th_size,        \* per thread: font_size
    th_font,        \* per thread: the font object just loaded
    th_ret          \* per thread: the returned font object

vars == << draw_items, debug_mode, pc, caller, debug, add_text_stroke, result,
           parent_id, path, bg_item, text_item, start_root, layers, drawn_texts,
           font_cache, png, raised, response, sel_items, sel_rand, sel_out,
           th_pc, th_size, th_font, th_ret >>

NoValue == [none |-> TRUE]

-----------------------------------------------------------------------------
(* Bounds of the model.                                                    *)

MaxLen == 3        \* longest item list handed to the selector on its own
MaxWeight == 3     \* largest weight of those items
MaxPath == 6       \* longest descent followed (every catalog is shallower)
NumThreads == 2    \* concurrent callers of _load_font

-----------------------------------------------------------------------------
(* Configuration: the defaults load_config writes.                         *)

width == 1240
height == 620
font_size == 40

-----------------------------------------------------------------------------
(* Helpers.                                                                *)

Range(s) == { s[i] : i \in DOMAIN s }

Min(a, b) == IF a <= b THEN a ELSE b

\* dict.get(key, default)
DictGet(d, key, default) == IF key \in DOMAIN d THEN d[key] ELSE default

Item(id, parent, name, weight, remark) ==
    [id |-> id, parent_id |-> parent, name |-> name, weight |-> weight,
     remark |-> remark]

\* sum(item.weight for item in items)
RECURSIVE total_weight(_)
total_weight(items) ==
    IF items = << >> THEN 0
    ELSE items[1].weight + total_weight(Tail(items))

-----------------------------------------------------------------------------
(* _draw_random_item: the scan of the items for rand_num.                  *)

\* The scan with the boundary excluded (rand_num < cumulative).
RECURSIVE scan_items_strict(_, _, _, _)
scan_items_strict(items, rand_num, i, cumulative) ==
    IF i > Len(items)
    THEN [index |-> Len(items), fallback |-> TRUE]
    ELSE LET c == cumulative + items[i].weight
         IN  IF rand_num < c
             THEN [index |-> i, fallback |-> FALSE]
             ELSE scan_items_strict(items, rand_num, i + 1, c)

\* for item in items: cumulative += item.weight; if rand_num <= cumulative:
\* return item.  After the loop: return items[-1].
RECURSIVE scan_items(_, _, _, _)
scan_items(items, rand_num, i, cumulative) ==
    IF i > Len(items)
    THEN [index |-> Len(items), fallback |-> TRUE]
    ELSE LET c == cumulative + items[i].weight
         IN  IF rand_num <= c
             THEN [index |-> i, fallback |-> FALSE]
             ELSE scan_items(items, rand_num, i + 1, c)

\* The values random.randint(1, total_weight) can return.
rand_nums(items) == 1 .. total_weight(items)

\* _draw_random_item(items) for the value rand_num of the random source:
\* the outcome is a ValueError on an empty list, and otherwise the index of
\* the returned item and whether the fallback returned it.
draw_random_item(items, rand_num) ==
    IF items = << >>
    THEN [error |-> "ValueError", index |-> 0, fallback |-> FALSE]
    ELSE LET s == scan_items(items, rand_num, 1, 0)
         IN  [error |-> "none", index |-> s.index, fallback |-> s.fallback]

-----------------------------------------------------------------------------
(* The data of draw_data: the lookup tables, the colour resolver and the   *)
(* catalogs the service may be started with.                               *)

BACKGROUND_IMAGE_MAP == ("bgA" :> "bg_a.png") @@ ("bgB" :> "bg_b.png")

TEXT_IMAGE_MAP == ("daji" :> "daji.png") @@ ("qi" :> "qi.png")

ColorTable ==
    ("Azure" :> << "0", "0", "7", "F", "F", "F" >>) @@
    ("Rose"  :> << "F", "F", "0", "0", "7", "F" >>)

\* extract_color_from_name: the hex triplet of a colour name, "" when the
\* name resolves to none.
extract_color_from_name(name) == DictGet(ColorTable, name, << >>)

\* A complete catalog: two backgrounds below "0" beside the text images,
\* every kind on the long path, a short path, and a text image with no
\* table entry whose path has a colour that resolves to none and no dordas.
CatalogFull == <<
    Item("b1", "0",  "bgA",     1, "backgroundimg"),
    Item("b2", "0",  "bgB",     3, "backgroundimg"),
    Item("t1", "0",  "daji",    2, "textimg"),
    Item("t2", "0",  "moji",    1, "textimg"),
    Item("d1", "t1", "Flower",  1, "dordas"),
    Item("d2", "t1", "Stone",   2, "dordas"),
    Item("c1", "d1", "Azure",   1, "dordascolor"),
    Item("c2", "d2", "Rose",    1, "dordascolor"),
    Item("p1", "c1", "Fortune", 1, "blessing"),
    Item("e1", "p1", "Rest",    1, "entry"),
    Item("c3", "t2", "Plain",   1, "dordascolor"),
    Item("p2", "c3", "Calm",    2, "blessing"),
    Item("e2", "c3", "Walk",    1, "entry") >>

\* Nothing below "0": the text images are below "9".
CatalogOdd == <<
    Item("b1", "bg", "bgA",    2, "backgroundimg"),
    Item("t9", "9",  "qi",     1, "textimg"),
    Item("t8", "9",  "moji",   2, "textimg"),
    Item("d1", "t9", "Flower", 1, "dordas"),
    Item("e1", "d1", "Rest",   1, "entry"),
    Item("p1", "t8", "Calm",   1, "blessing") >>

\* Below "0" only an item that is no text image; text images below "9".
CatalogNoTextBelowRoot == <<
    Item("b1", "bg", "bgB",    1, "backgroundimg"),
    Item("d0", "0",  "Flower", 1, "dordas"),
    Item("t9", "9",  "qi",     1, "textimg"),
    Item("e1", "t9", "Rest",   1, "entry") >>

\* No background item.
CatalogNoBackground == <<
    Item("t1", "0",  "daji",   1, "textimg"),
    Item("d1", "t1", "Flower", 1, "dordas") >>

\* Backgrounds only.
CatalogNoRoots == <<
    Item("b1", "bg", "bgA", 1, "backgroundimg"),
    Item("b2", "bg", "bgX", 1, "backgroundimg") >>

\* A background with no table entry; text images that are leaves; a path
\* with two items of one kind and an item of a kind that is not routed.
CatalogSparse == <<
    Item("b1", "bg", "bgX",    1, "backgroundimg"),
    Item("t1", "0",  "daji",   1, "textimg"),
    Item("t2", "0",  "qi",     1, "textimg"),
    Item("t3", "0",  "moji",   1, "textimg"),
    Item("d1", "t2", "Flower", 1, "dordas"),
    Item("d2", "d1", "Stone",  3, "dordas"),
    Item("e1", "d2", "Rest",   1, "entry"),
    Item("x1", "e1", "daji",   1, "textimg"),
    Item("e3", "d1", "Walk",   1, "entry"),
    Item("p3", "t3", "Calm",   1, "blessing"),
    Item("c3", "p3", "Azure",  2, "dordascolor") >>

Catalogs == { CatalogFull, CatalogOdd, CatalogNoTextBelowRoot,
              CatalogNoBackground, CatalogNoRoots, CatalogSparse }

RootIds == { "0", "9", "bg" }

\* The number of items on the chain from an item up to its root; -1 when
\* the chain does not end within fuel steps (a cycle).
RECURSIVE chain_length(_, _, _)
chain_length(items, id, fuel) ==
    LET here == { i \in DOMAIN items : items[i].id = id }
    IN  IF here = {} THEN 0
        ELSE IF fuel = 0 THEN -1
        ELSE LET up == chain_length(items, items[CHOOSE i \in here : TRUE].parent_id,
                                    fuel - 1)
             IN  IF up < 0 THEN -1 ELSE up + 1

Acyclic(items) ==
    \A i \in DOMAIN items : chain_length(items, items[i].id, Len(items)) >= 0

\* The depth of the forest: the longest chain of items.
ForestDepth(items) ==
    LET lens == { chain_length(items, items[i].id, Len(items)) : i \in DOMAIN items }
    IN  IF lens = {} THEN 0 ELSE CHOOSE n \in lens : \A m \in lens : m <= n

\* Section 3's invariant of a catalog, and the two sets a draw selects from
\* not empty.
WellFormed(items) ==
    /\ \A i \in DOMAIN items :
          /\ items[i].weight > 0
          /\ \/ items[i].parent_id \in RootIds
             \/ \E j \in DOMAIN items : items[j].id = items[i].parent_id
    /\ \A i, j \in DOMAIN items : items[i].id = items[j].id => i = j
    /\ Acyclic(items)
    /\ \E i \in DOMAIN items : items[i].remark = "backgroundimg"
    /\ LET root == IF \E i \in DOMAIN items : items[i].parent_id = "0"
                   THEN "0" ELSE "9"
       IN  \E i \in DOMAIN items :
              items[i].parent_id = root /\ items[i].remark = "textimg"

-----------------------------------------------------------------------------
(* BlessingResult and the draw.                                            *)

BlessingResult ==
    [background_image |-> "", text_image |-> "", dordas |-> "",
     dordas_color |-> "", color_hex |-> << >>, blessing |-> "", entry |-> ""]

\* _get_children
get_children(parent) == SelectSeq(draw_items, LAMBDA it : it.parent_id = parent)

\* The routing with the blessing written to the entry field.
route_swapped(res, selected) ==
    IF selected.remark = "dordas" THEN [res EXCEPT !.dordas = selected.name]
    ELSE IF selected.remark = "dordascolor"
         THEN [res EXCEPT !.dordas_color = selected.name]
    ELSE IF selected.remark = "blessing" THEN [res EXCEPT !.entry = selected.name]
    ELSE IF selected.remark = "entry" THEN [res EXCEPT !.entry = selected.name]
    ELSE res

\* _draw_sub_items: the field the selected item is written to.
route(res, selected) ==
    IF selected.remark = "dordas" THEN [res EXCEPT !.dordas = selected.name]
    ELSE IF selected.remark = "dordascolor"
         THEN [res EXCEPT !.dordas_color = selected.name,
                          !.color_hex = extract_color_from_name(selected.name)]
    ELSE IF selected.remark = "blessing" THEN [res EXCEPT !.blessing = selected.name]
    ELSE IF selected.remark = "entry" THEN [res EXCEPT !.entry = selected.name]
    ELSE res

\* One level that recurses on the parent it was given.
draw_sub_items_same_parent(parent, res, rand_num) ==
    LET children == get_children(parent)
    IN  IF children = << >>
        THEN [returned |-> TRUE, result |-> res, selected |-> NoValue, next |-> parent]
        ELSE LET selected == children[draw_random_item(children, rand_num).index]
             IN  [returned |-> FALSE, result |-> route(res, selected),
                  selected |-> selected, next |-> parent]

\* One level of _draw_sub_items(parent, res): it returns when the parent
\* has no children, and otherwise selects a child, routes it and recurses
\* on the selected item's id.
draw_sub_items(parent, res, rand_num) ==
    LET children == get_children(parent)
    IN  IF children = << >>
        THEN [returned |-> TRUE, result |-> res, selected |-> NoValue, next |-> parent]
        ELSE LET selected == children[draw_random_item(children, rand_num).index]
             IN  [returned |-> FALSE, result |-> route(res, selected),
                  selected |-> selected, next |-> selected.id]

\* The start set filtered before the fallback to "9" is decided.
text_start_set_filter_first ==
    LET textimg(its) == SelectSeq(its, LAMBDA it : it.remark = "textimg")
        below0 == textimg(get_children("0"))
    IN  IF below0 = << >>
        THEN [root |-> "9", items |-> textimg(get_children("9"))]
        ELSE [root |-> "0", items |-> below0]

\* The start set with no filter.
text_start_set_unfiltered ==
    LET below0 == get_children("0")
    IN  IF below0 = << >>
        THEN [root |-> "9", items |-> get_children("9")]
        ELSE [root |-> "0", items |-> below0]

\* perform_draw, step 2: the children of "0", those of "9" when there are
\* none, then filtered to the text images.
text_start_set ==
    LET below0 == get_children("0")
        chosen == IF below0 = << >>
                  THEN [root |-> "9", items |-> get_children("9")]
                  ELSE [root |-> "0", items |-> below0]
    IN  [root |-> chosen.root,
         items |-> SelectSeq(chosen.items, LAMBDA it : it.remark = "textimg")]

\* The background resolved to the name itself when the table has no entry.
resolve_background_image_default_name(name) == DictGet(BACKGROUND_IMAGE_MAP, name, name)

\* BACKGROUND_IMAGE_MAP.get(bg_item.name, "")
resolve_background_image(name) == DictGet(BACKGROUND_IMAGE_MAP, name, "")

\* TEXT_IMAGE_MAP.get(text_item.name, "")
resolve_text_image(name) == DictGet(TEXT_IMAGE_MAP, name, "")

-----------------------------------------------------------------------------
(* _hex_to_rgba.                                                           *)

HexValue ==
    ("0" :> 0) @@ ("1" :> 1) @@ ("2" :> 2) @@ ("3" :> 3) @@ ("4" :> 4) @@
    ("5" :> 5) @@ ("6" :> 6) @@ ("7" :> 7) @@ ("8" :> 8) @@ ("9" :> 9) @@
    ("A" :> 10) @@ ("B" :> 11) @@ ("C" :> 12) @@ ("D" :> 13) @@ ("E" :> 14) @@
    ("F" :> 15) @@ ("a" :> 10) @@ ("b" :> 11) @@ ("c" :> 12) @@ ("d" :> 13) @@
    ("e" :> 14) @@ ("f" :> 15)

\* s.lstrip('#')
RECURSIVE lstrip_hash(_)
lstrip_hash(s) == IF s # << >> /\ s[1] = "#" THEN lstrip_hash(Tail(s)) ELSE s

\* s[a:b]
slice(s, a, b) == SubSeq(s, a + 1, Min(b, Len(s)))

RECURSIVE hex_digits_value(_, _)
hex_digits_value(s, acc) ==
    IF s = << >> THEN acc ELSE hex_digits_value(Tail(s), 16 * acc + HexValue[s[1]])

\* int(s, 16): a ValueError on the empty string and on any other character.
int16(s) ==
    IF s = << >> \/ \E i \in DOMAIN s : s[i] \notin DOMAIN HexValue
    THEN [error |-> "ValueError", value |-> 0]
    ELSE [error |-> "none", value |-> hex_digits_value(s, 0)]

hex_to_rgba(hex_color, alpha) ==
    LET h == lstrip_hash(hex_color)
        r == int16(slice(h, 0, 2))
        g == int16(slice(h, 2, 4))
        b == int16(slice(h, 4, 6))
    IN  IF r.error # "none" \/ g.error # "none" \/ b.error # "none"
        THEN [error |-> "ValueError", rgba |-> << >>]
        ELSE [error |-> "none", rgba |-> << r.value, g.value, b.value, alpha >>]

-----------------------------------------------------------------------------
(* The layers.  An asset file is "ok", "missing" or "corrupt" when it is   *)
(* opened; Image.open raises on the last two.                              *)

AssetStates == { "ok", "missing", "corrupt" }

\* The tint layer with the colour parsed outside the try block.
draw_colored_background_unguarded(color_hex, asset) ==
    LET c == hex_to_rgba(color_hex, 200)
    IN  IF c.error # "none"
        THEN [layer |-> "tint", drawn |-> FALSE, error |-> c.error, at |-> << >>]
        ELSE [layer |-> "tint", drawn |-> asset = "ok", error |-> "none",
              at |-> IF asset = "ok" THEN c.rgba ELSE << >>]

\* _draw_colored_background: every exception of the body is caught.
draw_colored_background(color_hex, asset) ==
    IF asset # "ok"
    THEN [layer |-> "tint", drawn |-> FALSE, error |-> "none", at |-> << >>]
    ELSE LET c == hex_to_rgba(color_hex, 200)
         IN  IF c.error # "none"
             THEN [layer |-> "tint", drawn |-> FALSE, error |-> "none", at |-> << >>]
             ELSE [layer |-> "tint", drawn |-> TRUE, error |-> "none", at |-> c.rgba]

\* _draw_background_decoration
draw_background_decoration(decoration_filename, asset) ==
    [layer |-> "decoration", drawn |-> asset = "ok", error |-> "none", at |-> << >>]

\* _draw_text_image
draw_text_image(text_filename, asset) ==
    [layer |-> "grade", drawn |-> asset = "ok", error |-> "none",
     at |-> IF asset = "ok"
            THEN << (width * 204) \div 1000, (height * 49) \div 100 >>
            ELSE << >>]

-----------------------------------------------------------------------------
(* _load_font and the font cache.                                          *)

\* The size argument: None, or a size.
FontArgs == { [given |-> FALSE, size |-> 0], [given |-> TRUE, size |-> 40],
              [given |-> TRUE, size |-> 49] }

\* font_size = size if size is not None else self.font_size
font_key(arg) == IF arg.given THEN arg.size ELSE font_size

\* ImageFont.truetype(path, font_size), and ImageFont.load_default() when it
\* raises; loaded_for and by record the call that made the object.
open_font(fsize, file_ok, by) ==
    IF file_ok
    THEN [kind |-> "truetype", size |-> fsize, loaded_for |-> fsize, by |-> by]
    ELSE [kind |-> "default", size |-> 0, loaded_for |-> fsize, by |-> by]

\* The insert under the renderer's configured size.
cache_insert_configured_size(cache, fsize, font) == (font_size :> font) @@ cache

\* self.font_cache[font_size] = font
cache_insert(cache, fsize, font) == (fsize :> font) @@ cache

KeyError == [kind |-> "KeyError", size |-> 0, loaded_for |-> 0, by |-> 0]

\* return self.font_cache[font_size]
cache_lookup(cache, fsize) == DictGet(cache, fsize, KeyError)

\* _load_font run without interruption.
load_font(cache, arg, file_ok) ==
    LET fsize == font_key(arg)
        after == IF fsize \notin DOMAIN cache
                 THEN cache_insert(cache, fsize, open_font(fsize, file_ok, 0))
                 ELSE cache
    IN  [cache |-> after, font |-> cache_lookup(after, fsize)]

-----------------------------------------------------------------------------
(* _draw_texts.                                                            *)

line_spacings == << 20, 60, 85 >>

text_area_x == (width * 65) \div 100 - 40 - 133

text_total_height == font_size * 3 + 32 + line_spacings[1] + line_spacings[2] + line_spacings[3]

start_y == (height - text_total_height) \div 2 + 29

StrokeOffsets == { << dx, dy >> : dx, dy \in {-1, 0, 1} } \ { << 0, 0 >> }

\* The loop over enumerate(texts) from 0-based index i on, at current_y:
\* the white glyph runs drawn, each with the stroke runs drawn before it.
RECURSIVE draw_texts_from(_, _, _, _, _, _)
draw_texts_from(texts, i, current_y, stroke, font_normal, font_blod) ==
    IF i >= Len(texts) THEN << >>
    ELSE IF texts[i + 1] # ""
    THEN << [i |-> i, text |-> texts[i + 1], x |-> text_area_x, y |-> current_y,
             font |-> IF i = 2 THEN font_blod ELSE font_normal,
             strokes |-> IF stroke THEN StrokeOffsets ELSE {}] >>
         \o draw_texts_from(texts, i + 1,
                IF i < Len(line_spacings)
                THEN current_y + (IF i = 2 THEN 32 ELSE font_size) + line_spacings[i + 1]
                ELSE current_y,
                stroke, font_normal, font_blod)
    ELSE draw_texts_from(texts, i + 1, current_y, stroke, font_normal, font_blod)

draw_texts(res, stroke, font_normal, font_blod) ==
    draw_texts_from(<< res.dordas, res.dordas_color, res.blessing, res.entry >>,
                    0, start_y, stroke, font_normal, font_blod)

-----------------------------------------------------------------------------
(* The service: one call at a time (the handlers are coroutines that never *)
(* await).                                                                 *)

Threads == 1 .. NumThreads

ThreadsIdle ==
    /\ th_pc = [t \in Threads |-> "idle"]
    /\ th_size = [t \in Threads |-> 0]
    /\ th_font = [t \in Threads |-> NoValue]
    /\ th_ret = [t \in Threads |-> NoValue]

CallIdle ==
    /\ pc = "idle"
    /\ caller = "none"
    /\ debug = FALSE
    /\ add_text_stroke = FALSE
    /\ result = NoValue
    /\ parent_id = ""
    /\ path = << >>
    /\ bg_item = NoValue
    /\ text_item = NoValue
    /\ start_root = ""
    /\ layers = << >>
    /\ drawn_texts = << >>
    /\ png = FALSE
    /\ raised = "none"
    /\ response = NoValue

SelectorIdle ==
    /\ sel_items = << >>
    /\ sel_rand = 0
    /\ sel_out = NoValue

Init ==
    /\ draw_items \in Catalogs
    /\ debug_mode \in BOOLEAN
    /\ font_cache = << >>
    /\ CallIdle
    /\ SelectorIdle
    /\ ThreadsIdle

fixed == << draw_items, debug_mode >>
selector == << sel_items, sel_rand, sel_out >>
threads == << th_pc, th_size, th_font, th_ret >>

\* No call is running.
Ready == pc \in { "idle", "returned", "raised", "responded" }

\* The parameters generate_blessing_image declares.
generate_params == { "debug", "add_text_stroke" }

\* Binding a call's keyword arguments: a TypeError on a keyword that is no
\* parameter.
bind_arguments(kwargs) == IF kwargs \subseteq generate_params THEN "none" ELSE "TypeError"

\* The state of a call that begins (exc = "none") or is refused at once.
Begin(who, d, s, exc) ==
    /\ caller' = who
    /\ debug' = d
    /\ add_text_stroke' = s
    /\ result' = NoValue
    /\ parent_id' = ""
    /\ path' = << >>
    /\ bg_item' = NoValue
    /\ text_item' = NoValue
    /\ start_root' = ""
    /\ layers' = << >>
    /\ drawn_texts' = << >>
    /\ png' = FALSE
    /\ raised' = exc
    /\ IF exc = "none"
       THEN pc' = "draw_bg" /\ response' = NoValue
       ELSE pc' = "responded" /\ response' = [status |-> 500, error |-> exc]
    /\ UNCHANGED << fixed, font_cache, selector, threads >>

\* An exception leaves the running call: the caller of the renderer sees
\* it, a handler answers 500.
Fail(exc) ==
    /\ raised' = exc
    /\ result' = NoValue
    /\ png' = FALSE
    /\ IF caller = "direct"
       THEN pc' = "raised" /\ response' = response
       ELSE pc' = "responded" /\ response' = [status |-> 500, error |-> exc]

\* A caller of the renderer: generate_blessing_image(debug, add_text_stroke).
GenerateBlessingImage ==
    /\ Ready
    /\ \E d, s \in BOOLEAN : Begin("direct", d, s, "none")

\* GET /json
HttpJson ==
    /\ Ready
    /\ \E starwo \in { "None", "1" } :
          LET force_odd == starwo # "None"
              kwargs == { "debug", "force_odd" }
          IN  Begin("json", debug_mode, FALSE, bind_arguments(kwargs))

\* GET /blessing
HttpBlessing ==
    /\ Ready
    /\ \E starwo \in { "None", "1" }, stroke \in BOOLEAN :
          LET force_odd == starwo # "None"
              kwargs == { "debug", "add_text_stroke", "force_odd" }
          IN  Begin("blessing", debug_mode, stroke, bind_arguments(kwargs))

\* perform_draw, step 1.
DrawBackground ==
    /\ pc = "draw_bg"
    /\ LET bg_items == SelectSeq(draw_items, LAMBDA it : it.remark = "backgroundimg")
       IN  \E r \in (IF bg_items = << >> THEN {0} ELSE rand_nums(bg_items)) :
              LET out == draw_random_item(bg_items, r)
              IN  /\ sel_items' = bg_items
                  /\ sel_rand' = r
                  /\ sel_out' = out
                  /\ IF out.error # "none"
                     THEN Fail(out.error) /\ UNCHANGED bg_item
                     ELSE /\ bg_item' = bg_items[out.index]
                          /\ result' = [BlessingResult EXCEPT !.background_image =
                                           resolve_background_image(bg_items[out.index].name)]
                          /\ pc' = "draw_text"
                          /\ UNCHANGED << png, raised, response >>
    /\ UNCHANGED << fixed, caller, debug, add_text_stroke, parent_id, path, text_item,
                    start_root, layers, drawn_texts, font_cache, threads >>

\* perform_draw, step 2.
DrawTextItem ==
    /\ pc = "draw_text"
    /\ LET start == text_start_set
           text_items == start.items
       IN  \E r \in (IF text_items = << >> THEN {0} ELSE rand_nums(text_items)) :
              LET out == draw_random_item(text_items, r)
              IN  /\ sel_items' = text_items
                  /\ sel_rand' = r
                  /\ sel_out' = out
                  /\ start_root' = start.root
                  /\ IF out.error # "none"
                     THEN /\ Fail(out.error)
                          /\ UNCHANGED << text_item, parent_id >>
                     ELSE /\ text_item' = text_items[out.index]
                          /\ result' = [result EXCEPT !.text_image =
                                           resolve_text_image(text_items[out.index].name)]
                          /\ parent_id' = text_items[out.index].id
                          /\ pc' = "descend"
                          /\ UNCHANGED << png, raised, response >>
    /\ UNCHANGED << fixed, caller, debug, add_text_stroke, path, bg_item, layers, drawn_texts,
                    font_cache, threads >>

\* perform_draw, step 3: one level of _draw_sub_items; perform_draw returns
\* the result when the recursion returns.
DrawSubItems ==
    /\ pc = "descend"
    /\ LET children == get_children(parent_id)
       IN  \E r \in (IF children = << >> THEN {0} ELSE rand_nums(children)) :
              LET level == draw_sub_items(parent_id, result, r)
              IN  IF level.returned
                  THEN /\ pc' = "debug_print"
                       /\ UNCHANGED << result, parent_id, path, selector >>
                  ELSE /\ Len(path) < MaxPath
                       /\ sel_items' = children
                       /\ sel_rand' = r
                       /\ sel_out' = draw_random_item(children, r)
                       /\ result' = level.result
                       /\ path' = Append(path, level.selected)
                       /\ parent_id' = level.next
                       /\ pc' = "descend"
    /\ UNCHANGED << fixed, caller, debug, add_text_stroke, bg_item, text_item, start_root, layers,
                    drawn_texts, font_cache, png, raised, response, threads >>

\* The attributes of BlessingResult.
result_attributes ==
    { "background_image", "text_image", "dordas", "dordas_color", "color_hex",
      "blessing", "entry" }

\* if debug: print(... result.text_label ...): an AttributeError on an
\* attribute BlessingResult has not.
DebugPrint ==
    /\ pc = "debug_print"
    /\ IF debug /\ "text_label" \notin result_attributes
       THEN Fail("AttributeError")
       ELSE pc' = "tint" /\ UNCHANGED << result, png, raised, response >>
    /\ UNCHANGED << fixed, caller, debug, add_text_stroke, parent_id, path, bg_item, text_item,
                    start_root, layers, drawn_texts, font_cache, selector, threads >>

\* Layer 1 on the new canvas.
DrawColoredBackground ==
    /\ pc = "tint"
    /\ \E asset \in AssetStates :
          LET layer == draw_colored_background(result.color_hex, asset)
          IN  /\ layers' = Append(layers, layer)
              /\ IF layer.error # "none"
                 THEN Fail(layer.error)
                 ELSE pc' = "decoration" /\ UNCHANGED << result, png, raised, response >>
    /\ UNCHANGED << fixed, caller, debug, add_text_stroke, parent_id, path, bg_item, text_item,
                    start_root, drawn_texts, font_cache, selector, threads >>

\* Layer 2: if result.background_image: ...
DrawBackgroundDecoration ==
    /\ pc = "decoration"
    /\ \E asset \in AssetStates :
          layers' = IF result.background_image # ""
                    THEN Append(layers,
                                draw_background_decoration(result.background_image, asset))
                    ELSE layers
    /\ pc' = "grade"
    /\ UNCHANGED << fixed, caller, debug, add_text_stroke, result, parent_id, path,
                    bg_item, text_item, start_root, drawn_texts, font_cache, png, raised, response,
                    selector, threads >>

\* Layer 3: if result.text_image: ...
DrawTextImage ==
    /\ pc = "grade"
    /\ \E asset \in AssetStates :
          layers' = IF result.text_image # ""
                    THEN Append(layers, draw_text_image(result.text_image, asset))
                    ELSE layers
    /\ pc' = "texts"
    /\ UNCHANGED << fixed, caller, debug, add_text_stroke, result, parent_id, path,
                    bg_item, text_item, start_root, drawn_texts, font_cache, png, raised, response,
                    selector, threads >>

\* Layer 4: _draw_texts, which loads the two fonts first.
DrawTexts ==
    /\ pc = "texts"
    /\ \E ok40, ok49 \in BOOLEAN :
          LET normal == load_font(font_cache, [given |-> TRUE, size |-> 40], ok40)
              blod == load_font(normal.cache, [given |-> TRUE, size |-> 49], ok49)
          IN  /\ font_cache' = blod.cache
              /\ drawn_texts' = draw_texts(result, add_text_stroke, normal.font, blod.font)
    /\ layers' = Append(layers, [layer |-> "text", drawn |-> TRUE, error |-> "none",
                                 at |-> << >>])
    /\ pc' = "save"
    /\ UNCHANGED << fixed, caller, debug, add_text_stroke, result, parent_id, path,
                    bg_item, text_item, start_root, png, raised, response, selector, threads >>

\* canvas.save, return output.getvalue(): the bytes alone.  A handler
\* unpacks what is returned into two names.
Save ==
    /\ pc = "save"
    /\ IF caller = "direct"
       THEN /\ png' = TRUE
            /\ pc' = "returned"
            /\ UNCHANGED << result, raised, response >>
       ELSE Fail("ValueError")
    /\ UNCHANGED << fixed, caller, debug, add_text_stroke, parent_id, path, bg_item, text_item,
                    start_root, layers, drawn_texts, font_cache, selector, threads >>

Next ==
    \/ GenerateBlessingImage
    \/ HttpJson
    \/ HttpBlessing
    \/ DrawBackground
    \/ DrawTextItem
    \/ DrawSubItems
    \/ DebugPrint
    \/ DrawColoredBackground
    \/ DrawBackgroundDecoration
    \/ DrawTextImage
    \/ DrawTexts
    \/ Save

Spec == Init /\ [][Next]_vars

\* A call that has begun keeps running: the interpreter executes it to its
\* end.
Running ==
    \/ DrawBackground
    \/ DrawTextItem
    \/ DrawSubItems
    \/ DebugPrint
    \/ DrawColoredBackground
    \/ DrawBackgroundDecoration
    \/ DrawTextImage
    \/ DrawTexts
    \/ Save

FairSpec == Spec /\ WF_vars(Running)

-----------------------------------------------------------------------------
(* The selector on its own: _draw_random_item on every list of at most     *)
(* MaxLen items with weights of at most MaxWeight.                         *)

ItemLists ==
    { [i \in DOMAIN w |-> Item(ToString(i), "0", "name", w[i], "dordas")] :
        w \in UNION { [1 .. n -> 1 .. MaxWeight] : n \in 0 .. MaxLen } }

InitSelect ==
    /\ draw_items = << >>
    /\ debug_mode = FALSE
    /\ font_cache = << >>
    /\ CallIdle
    /\ ThreadsIdle
    /\ sel_items \in ItemLists
    /\ sel_rand = 0
    /\ sel_out = NoValue

DrawRandomItem ==
    /\ sel_out = NoValue
    /\ \E r \in (IF sel_items = << >> THEN {0} ELSE rand_nums(sel_items)) :
          /\ sel_rand' = r
          /\ sel_out' = draw_random_item(sel_items, r)
    /\ UNCHANGED << fixed, pc, caller, debug, add_text_stroke, result, parent_id, path,
                    bg_item, text_item, start_root, layers, drawn_texts, font_cache, png, raised,
                    response, sel_items, threads >>

NextSelect == DrawRandomItem

SpecSelect == InitSelect /\ [][NextSelect]_vars

-----------------------------------------------------------------------------
(* _load_font called by NumThreads threads at once.  A step is one access  *)
(* of the dictionary or one load of the font file.                         *)

InitFont ==
    /\ draw_items = << >>
    /\ debug_mode = FALSE
    /\ font_cache = << >>
    /\ CallIdle
    /\ SelectorIdle
    /\ ThreadsIdle

others == << fixed, pc, caller, debug, add_text_stroke, result, parent_id, path,
             bg_item, text_item, start_root, layers, drawn_texts, png, raised, response, selector >>

\* font_size = size if size is not None else self.font_size
LoadFontCall(t) ==
    /\ th_pc[t] = "idle"
    /\ \E arg \in FontArgs : th_size' = [th_size EXCEPT ![t] = font_key(arg)]
    /\ th_pc' = [th_pc EXCEPT ![t] = "check"]
    /\ UNCHANGED << others, font_cache, th_font, th_ret >>

\* if font_size not in self.font_cache
LoadFontCheck(t) ==
    /\ th_pc[t] = "check"
    /\ th_pc' = [th_pc EXCEPT ![t] = IF th_size[t] \notin DOMAIN font_cache
                                     THEN "load" ELSE "return"]
    /\ UNCHANGED << others, font_cache, th_size, th_font, th_ret >>

\* ImageFont.truetype(...), or ImageFont.load_default() in the handler
LoadFontOpen(t) ==
    /\ th_pc[t] = "load"
    /\ \E file_ok \in BOOLEAN :
          th_font' = [th_font EXCEPT ![t] = open_font(th_size[t], file_ok, t)]
    /\ th_pc' = [th_pc EXCEPT ![t] = "store"]
    /\ UNCHANGED << others, font_cache, th_size, th_ret >>

\* self.font_cache[font_size] = ...
LoadFontStore(t) ==
    /\ th_pc[t] = "store"
    /\ font_cache' = cache_insert(font_cache, th_size[t], th_font[t])
    /\ th_pc' = [th_pc EXCEPT ![t] = "return"]
    /\ UNCHANGED << others, th_size, th_font, th_ret >>

\* return self.font_cache[font_size]
LoadFontReturn(t) ==
    /\ th_pc[t] = "return"
    /\ th_ret' = [th_ret EXCEPT ![t] = cache_lookup(font_cache, th_size[t])]
    /\ th_pc' = [th_pc EXCEPT ![t] = "done"]
    /\ UNCHANGED << others, font_cache, th_size, th_font >>

NextFont ==
    \E t \in Threads :
        \/ LoadFontCall(t)
        \/ LoadFontCheck(t)
        \/ LoadFontOpen(t)
        \/ LoadFontStore(t)
        \/ LoadFontReturn(t)

SpecFont == InitFont /\ [][NextFont]_vars

-----------------------------------------------------------------------------
(* The properties.                                                         *)

\* The cumulative weight of the first i items.
PrefixWeight(items, i) == total_weight(SubSeq(items, 1, i))

\* C1: on a non-empty list of items with positive weights, for every rand_num
\* in 1 .. total, _draw_random_item returns the first item whose cumulative
\* weight is at least rand_num; item i is returned for exactly weight[i] of
\* the values of rand_num; the fallback after the scan never returns.
C1_SelectsFirstCumulativeAtLeastRand ==
    sel_items # << >> =>
        /\ \A i \in DOMAIN sel_items :
              Cardinality({ r \in rand_nums(sel_items) :
                              draw_random_item(sel_items, r).index = i })
                  = sel_items[i].weight
        /\ \A r \in rand_nums(sel_items) : ~ draw_random_item(sel_items, r).fallback
        /\ sel_out # NoValue =>
              /\ sel_out.error = "none"
              /\ ~ sel_out.fallback
              /\ sel_out.index \in DOMAIN sel_items
              /\ sel_rand <= PrefixWeight(sel_items, sel_out.index)
              /\ sel_rand > PrefixWeight(sel_items, sel_out.index - 1)

\* C1's case: the random value on the upper boundary of the second of three
\* items, which weighs more than 1.
C1_Witness ==
    /\ sel_out # NoValue
    /\ Len(sel_items) = 3
    /\ sel_items[2].weight > 1
    /\ sel_rand = PrefixWeight(sel_items, 2)
    /\ sel_out.index = 2

\* perform_draw has returned its result to generate_blessing_image.
DrawReturned ==
    pc \in { "debug_print", "tint", "decoration", "grade", "texts", "save", "returned" }

\* perform_draw is running.
Drawing == pc \in { "draw_bg", "draw_text", "descend" }

\* The items perform_draw has selected on the path, the text image first.
SelectedPath == IF text_item = NoValue THEN << >> ELSE << text_item >> \o path

C2_PathSafe ==
    WellFormed(draw_items) =>
        /\ \A i, j \in DOMAIN SelectedPath :
              SelectedPath[i].id = SelectedPath[j].id => i = j
        /\ \A i \in DOMAIN SelectedPath :
              i > 1 => SelectedPath[i].parent_id = SelectedPath[i - 1].id
        /\ Len(SelectedPath) <= ForestDepth(draw_items)
        /\ Len(path) < MaxPath
        /\ DrawReturned =>
              /\ SelectedPath # << >>
              /\ \A k \in DOMAIN draw_items :
                    draw_items[k].parent_id # SelectedPath[Len(SelectedPath)].id

\* C2: on an acyclic well-formed catalog the descent selects one child per
\* level (each selected item is a child of the one selected before it), no
\* item twice, at most forest-depth items, it stops at the first selected
\* item with no children, and perform_draw terminates by returning.
C2_DrawTerminates ==
    /\ [] C2_PathSafe
    /\ (WellFormed(draw_items) /\ Drawing) ~> DrawReturned

\* C2's case: a well-formed catalog's longest path drawn to its leaf.
C2_Witness ==
    /\ WellFormed(draw_items)
    /\ pc = "debug_print"
    /\ Len(path) = 4
    /\ Len(SelectedPath) = ForestDepth(draw_items)

\* The names of the items of a kind selected below the text-image item.
SelectedNames(kind) == { path[i].name : i \in { j \in DOMAIN path : path[j].remark = kind } }

FieldIsSelected(value, kind) ==
    IF SelectedNames(kind) = {} THEN value = "" ELSE value \in SelectedNames(kind)

\* C5: after perform_draw each of dordas, dordas_color, blessing and entry is
\* the name of a selected item of its kind on the path below the text-image
\* item, or empty when the path has none; color_hex is
\* extract_color_from_name(dordas_color) when a dordas-color item was
\* selected and empty otherwise.
C5_FieldsFollowPath ==
    DrawReturned =>
        /\ FieldIsSelected(result.dordas, "dordas")
        /\ FieldIsSelected(result.dordas_color, "dordascolor")
        /\ FieldIsSelected(result.blessing, "blessing")
        /\ FieldIsSelected(result.entry, "entry")
        /\ result.color_hex = IF SelectedNames("dordascolor") = {} THEN << >>
                              ELSE extract_color_from_name(result.dordas_color)

\* C5's case: a path with an item of every kind and a colour that resolves.
C5_Witness ==
    /\ DrawReturned
    /\ result.dordas # "" /\ result.dordas_color # ""
    /\ result.blessing # "" /\ result.entry # ""
    /\ result.color_hex # << >>

\* The root perform_draw takes the start set from.
StartRoot ==
    IF \E k \in DOMAIN draw_items : draw_items[k].parent_id = "0" THEN "0" ELSE "9"

\* The text-image items below that root.
StartItems ==
    { draw_items[k] : k \in { j \in DOMAIN draw_items :
                                /\ draw_items[j].parent_id = StartRoot
                                /\ draw_items[j].remark = "textimg" } }

\* C6: the start set is the children of "0", those of "9" if and only if "0"
\* has no children at all, filtered to the text images; one of them is
\* selected and its id starts the descent.
C6_StartSet ==
    /\ start_root # "" =>
          /\ start_root = StartRoot
          /\ path = << >> => Range(sel_items) = StartItems
    /\ start_root = "9" <=>
          /\ start_root # ""
          /\ ~ \E k \in DOMAIN draw_items : draw_items[k].parent_id = "0"
    /\ text_item # NoValue =>
          /\ text_item \in StartItems
          /\ pc = "descend" /\ path = << >> => parent_id = text_item.id
          /\ path # << >> => path[1].parent_id = text_item.id

\* C6's case: "0" has no children and a text image below "9" starts the
\* descent.
C6_Witness ==
    /\ pc = "descend"
    /\ start_root = "9"
    /\ text_item # NoValue
    /\ path # << >>

\* C3: a request to /json or /blessing on a well-formed catalog, whatever
\* the flags, is answered with the image and never with the 500 response.
C3_RequestsSucceed ==
    (WellFormed(draw_items) /\ caller \in { "json", "blessing" } /\ response # NoValue)
        => response.status # 500

\* The y of line i when all four fields are non-empty.
FullLayoutY(i) ==
    draw_texts([BlessingResult EXCEPT !.dordas = "a", !.dordas_color = "b",
                                      !.blessing = "c", !.entry = "d"],
               FALSE, NoValue, NoValue)[i + 1].y

\* C4: each line _draw_texts draws is drawn at the y its index has when all
\* four fields are non-empty, whichever other fields are empty.
C4_LinePositionByIndex ==
    \A k \in DOMAIN drawn_texts : drawn_texts[k].y = FullLayoutY(drawn_texts[k].i)

NoBackgroundItem ==
    ~ \E k \in DOMAIN draw_items : draw_items[k].remark = "backgroundimg"

\* The call ended in the ValueError of the selector, with no result and no
\* image.
EndedInEmptySelection ==
    /\ pc = "raised"
    /\ raised = "ValueError"
    /\ sel_items = << >>
    /\ sel_out.error = "ValueError"
    /\ result = NoValue
    /\ ~ png
    /\ layers = << >>
    /\ drawn_texts = << >>

\* C7: a draw fails with an error, with no BlessingResult and no image, when
\* the catalog has no background-image item or the filtered text-image start
\* set is empty; an empty child set in the descent ends the traversal with
\* no error.
C7_EmptySelectionFails ==
    /\ (caller = "direct" /\ NoBackgroundItem /\ pc # "draw_bg")
          => EndedInEmptySelection
    /\ (caller = "direct" /\ StartItems = {} /\ pc \notin { "draw_bg", "draw_text" })
          => EndedInEmptySelection
    /\ (caller = "direct" /\ raised = "ValueError")
          => /\ NoBackgroundItem \/ StartItems = {}
             /\ path = << >>
    /\ pc = "debug_print"
          => /\ get_children(parent_id) = << >>
             /\ raised = "none"
             /\ result # NoValue

\* C7's case: the start set is empty after the filter although "0" has a
\* child, and the call has ended in the error.
C7_Witness ==
    /\ EndedInEmptySelection
    /\ ~ NoBackgroundItem
    /\ StartItems = {}
    /\ \E k \in DOMAIN draw_items : draw_items[k].parent_id = "0"

AllThreadsDone == \A t \in Threads : th_pc[t] = "done"

\* C8: under every interleaving of concurrent _load_font calls each entry of
\* the cache is a font loaded for its key; when all calls have finished the
\* cache holds one entry for each requested size and no other, and every
\* call has returned a font loaded for the size it requested (of that size
\* when the font file was read).
C8_FontCacheConsistent ==
    /\ \A k \in DOMAIN font_cache :
          /\ font_cache[k].loaded_for = k
          /\ font_cache[k].kind \in { "truetype", "default" }
    /\ \A t \in Threads :
          th_pc[t] = "done" =>
              /\ th_ret[t].kind \in { "truetype", "default" }
              /\ th_ret[t].loaded_for = th_size[t]
              /\ th_ret[t].kind = "truetype" => th_ret[t].size = th_size[t]
    /\ AllThreadsDone => DOMAIN font_cache = { th_size[t] : t \in Threads }

\* C8's case: two calls for one size raced on the first insert, both loaded
\* the font, and each returned the other's or its own.
C8_Witness ==
    /\ AllThreadsDone
    /\ \E t, u \in Threads :
          /\ t # u
          /\ th_size[t] = th_size[u]
          /\ th_font[t] # NoValue
          /\ th_font[u] # NoValue
          /\ th_ret[t].by = u

LayerNames == [k \in DOMAIN layers |-> layers[k].layer]

\* The layers generate_blessing_image attempts for a result, in order.
ExpectedLayers(res) ==
    << "tint" >>
    \o (IF res.background_image # "" THEN << "decoration" >> ELSE << >>)
    \o (IF res.text_image # "" THEN << "grade" >> ELSE << >>)
    \o << "text" >>

IsPrefix(a, b) == Len(a) <= Len(b) /\ a = SubSeq(b, 1, Len(a))

Rendering == pc \in { "tint", "decoration", "grade", "texts", "save" }

\* C9: no failure of the tint, decoration or grade-image layer (a missing or
\* corrupt asset, an empty color_hex) aborts the rendering: only that layer
\* is not drawn, the later layers are attempted in the order tint,
\* decoration, grade image, text, and the PNG bytes are produced.
C9_LayerFailuresSkipped ==
    /\ Rendering => raised = "none" /\ IsPrefix(LayerNames, ExpectedLayers(result))
    /\ (caller = "direct" /\ raised # "none") => layers = << >>
    /\ \A k \in DOMAIN layers : layers[k].error = "none"
    /\ pc = "returned" => png /\ LayerNames = ExpectedLayers(result)
    /\ (pc \in { "decoration", "grade", "texts", "save", "returned" }
          /\ result.color_hex = << >>) => ~ layers[1].drawn

\* C9's case: the colour is empty and the tint, decoration and grade-image
\* layers all failed, and the call returned the PNG bytes with the text drawn.
C9_Witness ==
    /\ pc = "returned"
    /\ png
    /\ result.color_hex = << >>
    /\ LayerNames = << "tint", "decoration", "grade", "text" >>
    /\ \A k \in 1 .. 3 : ~ layers[k].drawn
    /\ drawn_texts # << >>

HasLayer(name) == \E k \in DOMAIN layers : layers[k].layer = name

\* perform_draw is past its step 1, or past its step 2, and has not failed.
PastBackground == result # NoValue /\ bg_item # NoValue
PastTextItem == result # NoValue /\ text_item # NoValue

\* C10: a selected text-image name with no entry in the table gives an empty
\* text_image, the grade-image layer is skipped, the descent below the item
\* still runs and no error comes of it; a background name with no entry
\* gives an empty background_image and the decoration layer is skipped.
C10_UnmappedNamesSkipLayers ==
    /\ (PastTextItem /\ text_item.name \notin DOMAIN TEXT_IMAGE_MAP) =>
          /\ result.text_image = ""
          /\ ~ HasLayer("grade")
          /\ DrawReturned =>
                \/ get_children(text_item.id) = << >>
                \/ path # << >> /\ path[1].parent_id = text_item.id
    /\ (PastTextItem /\ text_item.name \in DOMAIN TEXT_IMAGE_MAP) =>
          /\ result.text_image = TEXT_IMAGE_MAP[text_item.name]
          /\ pc \in { "texts", "save", "returned" } => HasLayer("grade")
    /\ (PastBackground /\ bg_item.name \notin DOMAIN BACKGROUND_IMAGE_MAP) =>
          /\ result.background_image = ""
          /\ ~ HasLayer("decoration")
    /\ (PastBackground /\ bg_item.name \in DOMAIN BACKGROUND_IMAGE_MAP) =>
          /\ result.background_image = BACKGROUND_IMAGE_MAP[bg_item.name]
          /\ pc \in { "grade", "texts", "save", "returned" } => HasLayer("decoration")
    /\ (caller = "direct" /\ raised # "none" /\ text_item # NoValue) =>
          raised = "AttributeError" /\ debug

\* C10's case: neither selected name has an entry, the descent ran below the
\* text-image item, and the call returned the image without the two layers.
C10_Witness ==
    /\ pc = "returned"
    /\ png
    /\ bg_item.name \notin DOMAIN BACKGROUND_IMAGE_MAP
    /\ text_item.name \notin DOMAIN TEXT_IMAGE_MAP
    /\ path # << >>
    /\ LayerNames = << "tint", "text" >>

=============================================================================
